---- MODULE Spec2Model ----
(***************************************************************************)
(* The accident dashboard script app.py as a state machine.                *)
(*                                                                         *)
(* One run of the script is a sequence of steps (load, preprocessing, map  *)
(* filter, weather section, heat-map section, time section); the browser   *)
(* session triggers reruns.  The pandas operations the script applies are  *)
(* operators over tables: a table is a sequence of rows, a row a record    *)
(* of cells.  A missing text cell is the string NaN, a missing number the  *)
(* empty sequence <<>> and a present number n the sequence <<n>>.          *)
(***************************************************************************)
EXTENDS Integers, Sequences, FiniteSets, TLC

VARIABLES
  file,            \* the CSV at DATA_PATH: None (no such file), or its rows
  up,              \* the file_uploader's value: None, or the upload's rows
  load_args,       \* [sample_size, seed] load_sample_csv is called with
  tie,             \* how this build's unstable sort orders equal counts
  np_random,       \* the state of numpy's global generator
  cache,           \* st.cache_data's store for load_sample_csv
  loads,           \* the calls of load_sample_csv so far: arguments, result,
                   \* whether the cache answered, the global generator's state
  prep_cache,      \* st.cache_data's store for prep_tables
  session_state,   \* st.session_state: the widgets' values
  pressed,         \* the button pressed to trigger this run, or "none"
  pc,              \* the script's position in this run
  df,              \* the table df
  top_weather, weather_sel, df_weather, scatter_data, bar_data,
  top_weather2, weather_sel_heat, top_illum, illum_sel, metric_choice, grp,
  freq_tbl

vars == <<file, up, load_args, tie, np_random, cache, loads, prep_cache,
          session_state, pressed, pc, df,
          top_weather, weather_sel, df_weather, scatter_data, bar_data,
          top_weather2, weather_sel_heat, top_illum, illum_sel, metric_choice,
          grp, freq_tbl>>

(***************************************************************************)
(* Cells.                                                                  *)
(***************************************************************************)
NaN == "NaN"

NoNum == <<>>
Num(n) == <<n>>
IsNum(c) == c # <<>>
Val(c) == c[1]

\* A value that may be absent (None, an unset key, an undefined name).
None == <<>>
Some(x) == <<x>>
IsSome(o) == o # <<>>
Get(o) == o[1]

Range(s) == {s[k] : k \in 1..Len(s)}

Min(a, b) == IF a <= b THEN a ELSE b

RECURSIVE Gcd(_, _)
Gcd(a, b) == IF b = 0 THEN a ELSE Gcd(b, a % b)

(***************************************************************************)
(* Floating point quotients, as exact fractions.  A zero divisor gives     *)
(* nan (0/0) or inf (n/0) and raises nothing, as numpy and pandas do.      *)
(***************************************************************************)
FloatNaN == [num |-> 0, den |-> 0]
Float(n) == [num |-> n, den |-> 1]
TrueDiv(a, b) ==
  IF b = 0 THEN (IF a = 0 THEN FloatNaN ELSE [num |-> 1, den |-> 0])
  ELSE LET g == Gcd(a, b) IN [num |-> a \div g, den |-> b \div g]
Times(f, k) ==
  IF f.den = 0 THEN f
  ELSE LET g == Gcd(f.num * k, f.den) IN
       IF g = 0 THEN Float(0) ELSE [num |-> (f.num * k) \div g, den |-> f.den \div g]

(***************************************************************************)
(* The 'Date and Time' text, month/day/year hour:minute:second AM|PM, as   *)
(* the record of its fields; NaT is the missing timestamp.                 *)
(***************************************************************************)
Stamp(mo, d, y, I, M, S, p) ==
  [na |-> FALSE, mo |-> mo, d |-> d, y |-> y, I |-> I, M |-> M, S |-> S, p |-> p]
NaT == [na |-> TRUE, mo |-> 0, d |-> 0, y |-> 0, I |-> 0, M |-> 0, S |-> 0, p |-> "AM"]

IsLeap(y) == (y % 4 = 0 /\ y % 100 # 0) \/ y % 400 = 0
DaysIn(mo, y) ==
  IF mo = 2 THEN (IF IsLeap(y) THEN 29 ELSE 28)
  ELSE IF mo \in {4, 6, 9, 11} THEN 30 ELSE 31

\* Whether strptime accepts the text under '%m/%d/%Y %I:%M:%S %p'.
MatchesFormat(t) ==
  /\ t.mo \in 1..12
  /\ t.d \in 1..DaysIn(t.mo, t.y)
  /\ t.I \in 1..12
  /\ t.M \in 0..59
  /\ t.S \in 0..59
  /\ t.p \in {"AM", "PM"}

\* %I with %p: 12 AM is hour 0, 12 PM is hour 12.
Hour24(t) == (t.I % 12) + (IF t.p = "PM" THEN 12 ELSE 0)

\* Series.dt.dayofweek: Monday = 0 ... Sunday = 6.
MonthKey == <<0, 3, 2, 5, 0, 3, 5, 1, 4, 6, 2, 4>>
DayOfWeek(t) ==
  LET y == IF t.mo < 3 THEN t.y - 1 ELSE t.y
      sun0 == (y + (y \div 4) - (y \div 100) + (y \div 400) + MonthKey[t.mo] + t.d) % 7
  IN (sun0 + 6) % 7

(***************************************************************************)
(* load_sample_csv.                                                        *)
(***************************************************************************)
DATA_PATH == "sampled_nashville_accidents (1).csv"
DefaultSampleSize == 10000
DefaultSeed == 42

\* pd.read_csv: the file's rows under the default RangeIndex 0, 1, ...
read_csv(rows) ==
  [k \in 1..Len(rows) |->
     [idx |-> k - 1, Weather |-> rows[k].Weather, Illum |-> rows[k].Illum,
      DateTime |-> rows[k].DateTime, Injuries |-> rows[k].Injuries,
      Fatalities |-> rows[k].Fatalities, Lat |-> rows[k].Lat, Long |-> rows[k].Long]]

\* One draw of the generator (a linear congruential stand-in for MT19937).
NextRandom(x) == (x * 5 + 3) % 16

RECURSIVE Shuffle(_, _, _)
\* RandomState.permutation: Fisher-Yates over positions n, n-1, ..., 2.
Shuffle(s, n, x) ==
  IF n <= 1 THEN s
  ELSE LET r == NextRandom(x)
           j == (r % n) + 1
           swapped == [s EXCEPT ![n] = s[j], ![j] = s[n]]
       IN Shuffle(swapped, n - 1, r)

\* DataFrame.sample(n, random_state) without replacement: the head of a
\* permutation drawn by a generator that random_state seeds.
SampleSeeded(tbl, n, seed, global) == SubSeq(Shuffle(tbl, Len(tbl), seed % 16), 1, n)
\* The same without random_state: the draw comes from the global generator.
SampleUnseeded(tbl, n, seed, global) == SubSeq(Shuffle(tbl, Len(tbl), global), 1, n)
Sample(tbl, n, seed, global) == SampleSeeded(tbl, n, seed, global)

SampleCount(sample_size, total) == Min(sample_size, total)

\* The body of load_sample_csv (lines 11-12).
load_sample_csv(path_or_buf, sample_size, seed, global) ==
  LET df_full == read_csv(path_or_buf)
  IN Sample(df_full, SampleCount(sample_size, Len(df_full)), seed, global)

(***************************************************************************)
(* Basic preprocessing (lines 28-48).                                      *)
(***************************************************************************)
exclude == {"OTHER", "UNKNOWN"}

\* pd.to_datetime(..., format=...) raises on a text that does not match;
\* a missing value becomes NaT.
to_datetime_raises(tbl) ==
  \E k \in 1..Len(tbl) : ~tbl[k].DateTime.na /\ ~MatchesFormat(tbl[k].DateTime)

fillna(c) == IF c = NaN THEN "UNKNOWN" ELSE c
replace(c, old, new) == IF c = old THEN new ELSE c

\* NaN > 0 is False.
Positive(c) == IsNum(c) /\ Val(c) > 0

\* Lines 28-42: the derived columns and the UNKNOWN fill, row by row.
Derive(r) ==
  [idx |-> r.idx,
   Weather |-> replace(fillna(r.Weather), "OTHER (NARRATIVE)", "UNKNOWN"),
   Illum |-> fillna(r.Illum),
   DateTime |-> r.DateTime,
   day_of_week |-> IF r.DateTime.na THEN NoNum ELSE Num(DayOfWeek(r.DateTime)),
   hour |-> IF r.DateTime.na THEN NoNum ELSE Num(Hour24(r.DateTime)),
   Injuries |-> r.Injuries, Fatalities |-> r.Fatalities,
   has_injury |-> Positive(r.Injuries), has_fatality |-> Positive(r.Fatalities),
   Lat |-> r.Lat, Long |-> r.Long]

KeepAll(r) == TRUE
\* Lines 44-46: the exclusion mask.
NotExcluded(r) == r.Weather \notin exclude /\ r.Illum \notin exclude
Kept(r) == NotExcluded(r)

Preprocessed(tbl) == SelectSeq([k \in 1..Len(tbl) |-> Derive(tbl[k])], Kept)

\* Lines 77-78: coordinates in tenths of a degree; a comparison with NaN is
\* False.
InNashville(r) ==
  /\ IsNum(r.Lat) /\ Val(r.Lat) >= 360 /\ Val(r.Lat) <= 364
  /\ IsNum(r.Long) /\ Val(r.Long) >= -870 /\ Val(r.Long) <= -865
MapFiltered(tbl) == SelectSeq(tbl, InNashville)

(***************************************************************************)
(* Category Selector: Series.value_counts().nlargest(K).index.tolist().    *)
(***************************************************************************)
TopWeatherK == 8
TopIllumK == 6

Column(tbl, c) == [k \in 1..Len(tbl) |-> tbl[k][c]]

RECURSIVE Tally(_, _)
\* The hash table behind value_counts: the keys in first-seen order, each
\* with its count; missing values are dropped.
Tally(col, table) ==
  IF col = <<>> THEN table
  ELSE LET v == Head(col)
           seen == {k \in 1..Len(table) : table[k].key = v}
       IN IF v = NaN THEN Tally(Tail(col), table)
          ELSE IF seen = {}
               THEN Tally(Tail(col), Append(table, [key |-> v, count |-> 1]))
               ELSE LET k == CHOOSE k \in seen : TRUE
                    IN Tally(Tail(col), [table EXCEPT ![k].count = @ + 1])

\* Entries a and b of the hash table in ascending order of count.
BeforeAscending(table, t, a, b) ==
  \/ table[a].count < table[b].count
  \/ table[a].count = table[b].count /\ a < b
\* sort_values(ascending=False) orders the entries by count with the
\* default kind 'quicksort', which is not stable: where equal counts land
\* is the build's affair (t): "first" keeps their first-seen order, "last"
\* reverses it.
Before(table, t, a, b) ==
  \/ table[a].count > table[b].count
  \/ /\ table[a].count = table[b].count
     /\ IF t = "first" THEN a < b ELSE a > b

value_counts(col, t) ==
  LET table == Tally(col, <<>>)
      rank(a) == Cardinality({b \in 1..Len(table) : Before(table, t, b, a)}) + 1
  IN [n \in 1..Len(table) |-> table[CHOOSE a \in 1..Len(table) : rank(a) = n].key]

\* nlargest(K) of a Series already in descending order, keep='first' (a
\* stable selection): its first K entries.
nlargest(vc, K) == SubSeq(vc, 1, Min(K, Len(vc)))

TopK(tbl, c, K, t) == nlargest(value_counts(Column(tbl, c), t), K)

(***************************************************************************)
(* Cross-Tab Aggregator: the groupby calls.  groupby drops the rows with a *)
(* missing key (dropna=True) and yields one row per observed key.          *)
(***************************************************************************)
RECURSIVE SumSeq(_)
SumSeq(s) == IF s = <<>> THEN 0 ELSE Head(s) + SumSeq(Tail(s))

\* An empty list read as "no filter".
IsinOrAll(tbl, c, list) ==
  IF list = <<>> THEN tbl ELSE SelectSeq(tbl, LAMBDA r : r[c] \in Range(list))

\* isin: the rows whose column c holds one of the listed values.
Isin(tbl, c, list) == SelectSeq(tbl, LAMBDA r : r[c] \in Range(list))

\* Lines 200-202.
WeatherFrame(tbl, sel) ==
  LET sub == Isin(tbl, "Weather", sel)
  IN [k \in 1..Len(sub) |->
        [sub[k] EXCEPT
           !.hour = IF sub[k].DateTime.na THEN NoNum ELSE Num(Hour24(sub[k].DateTime)),
           !.has_injury = Positive(sub[k].Injuries)]]

\* The keys of groupby(['hour', 'Weather Description']).
HourWeatherKeysDropNa(tbl) ==
  {<<tbl[k].hour, tbl[k].Weather>> : k \in {j \in 1..Len(tbl) :
                                        IsNum(tbl[j].hour) /\ tbl[j].Weather # NaN}}
HourWeatherKeys(tbl) == HourWeatherKeysDropNa(tbl)

GroupRows(tbl, g) == {k \in 1..Len(tbl) : <<tbl[k].hour, tbl[k].Weather>> = g}

RECURSIVE InjurySum(_, _)
\* The sum of 'Number of Injuries' over the rows.
InjurySum(tbl, rows) ==
  IF rows = {} THEN 0
  ELSE LET k == CHOOSE k \in rows : TRUE
       IN (IF IsNum(tbl[k].Injuries) THEN Val(tbl[k].Injuries) ELSE 0)
            + InjurySum(tbl, rows \ {k})
\* injury_count=('has_injury', 'sum'): the number of True values.
InjuryFlags(tbl, rows) == Cardinality({k \in rows : tbl[k].has_injury})
InjuryCount(tbl, rows) == InjuryFlags(tbl, rows)

\* Lines 204-212.
ScatterData(tbl) ==
  {LET rows == GroupRows(tbl, g)
       accident_count == Cardinality({k \in rows : tbl[k].Weather # NaN})
       injury_count == InjuryCount(tbl, rows)
   IN [hour |-> g[1], Weather |-> g[2],
       accident_count |-> accident_count, injury_count |-> injury_count,
       pct_injury |-> Times(TrueDiv(injury_count, accident_count), 100)]
   : g \in HourWeatherKeys(tbl)}

\* Lines 258-262.
BarData(tbl) ==
  {[hour |-> g[1], Weather |-> g[2], accident_count |-> Cardinality(GroupRows(tbl, g))]
   : g \in HourWeatherKeys(tbl)}

(***************************************************************************)
(* build_heat (lines 358-380): the sparse aggregation and the dense grid.  *)
(***************************************************************************)
AggColumnInjuries(metric) == "Injuries"
AggColumn(metric) == IF metric = "Injuries" THEN "Injuries" ELSE "Fatalities"

\* groupby(['Weather Description', 'Illumination Description']).agg(...):
\* sum skips missing values, count counts the present ones.
HeatGroups(df_sub, agg_col) ==
  {LET rows == SelectSeq(df_sub, LAMBDA r : <<r.Weather, r.Illum>> = g)
       present == SelectSeq(rows, LAMBDA r : IsNum(r[agg_col]))
   IN [Weather |-> g[1], Illum |-> g[2],
       total |-> SumSeq([k \in 1..Len(present) |-> Val(present[k][agg_col])]),
       acc_cnt |-> Len(SelectSeq(rows, LAMBDA r : r.Weather # NaN))]
   : g \in {<<df_sub[k].Weather, df_sub[k].Illum>> :
              k \in {j \in 1..Len(df_sub) :
                       df_sub[j].Weather # NaN /\ df_sub[j].Illum # NaN}}}

\* pd.MultiIndex.from_product([w_list, i_list]): w_list outermost.
from_product(w_list, i_list) ==
  [n \in 1..(Len(w_list) * Len(i_list)) |->
     <<w_list[((n - 1) \div Len(i_list)) + 1], i_list[((n - 1) % Len(i_list)) + 1]>>]

\* The aggregation left as it is, one row per observed pair in no
\* particular order (no reindex).
ReindexSkipped(groups, full) ==
  LET RECURSIVE List(_)
      List(S) == IF S = {} THEN <<>>
                 ELSE LET x == CHOOSE x \in S : TRUE IN <<x>> \o List(S \ {x})
  IN List(groups)
\* set_index(...).reindex(full, fill_value=0).reset_index(): one row per
\* entry of full, the group's where there is one, zeros elsewhere.
ReindexFull(groups, full) ==
  [n \in 1..Len(full) |->
     IF \E r \in groups : r.Weather = full[n][1] /\ r.Illum = full[n][2]
     THEN CHOOSE r \in groups : r.Weather = full[n][1] /\ r.Illum = full[n][2]
     ELSE [Weather |-> full[n][1], Illum |-> full[n][2], total |-> 0, acc_cnt |-> 0]]
Reindex(groups, full) == ReindexFull(groups, full)

AvgUnguarded(total, acc_cnt) == TrueDiv(total, acc_cnt)
\* np.where(acc_cnt > 0, total / acc_cnt, 0): the quotient is evaluated for
\* every row (0/0 is nan, nothing is raised) and kept where acc_cnt > 0.
AvgGuarded(total, acc_cnt) ==
  LET quotient == TrueDiv(total, acc_cnt)
  IN IF acc_cnt > 0 THEN quotient ELSE Float(0)
AvgVal(total, acc_cnt) == AvgGuarded(total, acc_cnt)

build_heat(df_in, metric, w_list, i_list) ==
  LET agg_col == AggColumn(metric)
      df_sub == Isin(df_in, "Illum", i_list)
      sparse == HeatGroups(df_sub, agg_col)
      dense == Reindex(sparse, from_product(w_list, i_list))
  IN [n \in 1..Len(dense) |->
        [Weather |-> dense[n].Weather, Illum |-> dense[n].Illum,
         total |-> dense[n].total, acc_cnt |-> dense[n].acc_cnt,
         avg_val |-> AvgVal(dense[n].total, dense[n].acc_cnt)]]

(***************************************************************************)
(* prep_tables (lines 438-454).                                            *)
(***************************************************************************)
day_map == <<"Monday", "Tuesday", "Wednesday", "Thursday", "Friday", "Saturday", "Sunday">>
\* strftime("%-I %p") of hour h, as the pair it prints.
hour_map(h) == [I |-> IF h % 12 = 0 THEN 12 ELSE h % 12, p |-> IF h < 12 THEN "AM" ELSE "PM"]

\* Series.map: a missing value maps to a missing value.
Labeled(tbl) ==
  [k \in 1..Len(tbl) |->
     [idx |-> tbl[k].idx,
      day_name |-> IF IsNum(tbl[k].day_of_week)
                   THEN Some(day_map[Val(tbl[k].day_of_week) + 1]) ELSE None,
      hour_label |-> IF IsNum(tbl[k].hour) THEN Some(hour_map(Val(tbl[k].hour))) ELSE None,
      day_sort |-> tbl[k].day_of_week,
      hour_sort |-> tbl[k].hour]]

FreqKey(r) == <<r.day_name, r.hour_label, r.day_sort, r.hour_sort>>
FreqTbl(lab) ==
  {[day_name |-> g[1], hour_label |-> g[2], day_sort |-> g[3], hour_sort |-> g[4],
    accident_count |-> Cardinality({k \in 1..Len(lab) : FreqKey(lab[k]) = g})]
   : g \in {FreqKey(lab[k]) : k \in {j \in 1..Len(lab) :
               /\ IsSome(lab[j].day_name) /\ IsSome(lab[j].hour_label)
               /\ IsNum(lab[j].day_sort) /\ IsNum(lab[j].hour_sort)}}}

prep_tables(tbl) == [df_labeled |-> Labeled(tbl), freq_tbl |-> FreqTbl(Labeled(tbl))]

(***************************************************************************)
(* Widgets.  A keyed widget returns st.session_state[key] when the key is  *)
(* set (by the user's last interaction or by the script before the widget  *)
(* is created) and its default otherwise, and leaves its value under the   *)
(* key.  A button returns True in the run its press triggered.             *)
(***************************************************************************)
NoState ==
  [weather_sel |-> None, weather_sel_heat |-> None,
   illum_multiselect |-> None, metric_choice_select |-> None]

WidgetValue(ss, key, default) == IF IsSome(ss[key]) THEN Get(ss[key]) ELSE default

Metrics == <<"Injuries", "Fatalities">>

(***************************************************************************)
(* The state before the script's first run, and between runs.              *)
(***************************************************************************)
FreshRun ==
  /\ df = <<>>
  /\ top_weather = <<>> /\ weather_sel = <<>> /\ df_weather = <<>>
  /\ scatter_data = {} /\ bar_data = {}
  /\ top_weather2 = <<>> /\ weather_sel_heat = <<>>
  /\ top_illum = <<>> /\ illum_sel = <<>>
  /\ metric_choice = "" /\ grp = <<>>
  /\ freq_tbl = {}

FreshProcess ==
  /\ cache = <<>> /\ loads = {} /\ prep_cache = None
  /\ session_state = NoState /\ pressed = "none"

inputs == <<file, load_args, tie>>
process == <<np_random, cache, loads, prep_cache>>
weather_out == <<top_weather, weather_sel, df_weather, scatter_data, bar_data>>
heat_out == <<top_weather2, weather_sel_heat, top_illum, illum_sel, metric_choice, grp>>

(***************************************************************************)
(* Lines 14-21: the load.                                                  *)
(***************************************************************************)
\* A call of the cached load_sample_csv.
CachedLoad(source, content) ==
  LET key == <<source, load_args.sample_size, load_args.seed>>
      hit == key \in DOMAIN cache
      result == IF hit THEN cache[key]
                ELSE load_sample_csv(content, load_args.sample_size, load_args.seed, np_random)
  IN /\ df' = result
     /\ cache' = IF hit THEN cache ELSE (key :> result) @@ cache
     /\ loads' = loads \cup {[key |-> key, content |-> content, result |-> result,
                               hit |-> hit, global |-> np_random]}

LoadFile ==
  /\ pc = "start"
  /\ IsSome(file)
  /\ CachedLoad(DATA_PATH, Get(file))
  /\ pc' = "loaded"
  /\ UNCHANGED <<inputs, up, np_random, prep_cache, session_state, pressed,
                 weather_out, heat_out, freq_tbl>>

LoadUpload ==
  /\ pc = "start"
  /\ ~IsSome(file)
  /\ IsSome(up)
  /\ CachedLoad("upload", Get(up))
  /\ pc' = "loaded"
  /\ UNCHANGED <<inputs, up, np_random, prep_cache, session_state, pressed,
                 weather_out, heat_out, freq_tbl>>

\* st.stop() were it to return: the script goes on with no table.
StopIgnored ==
  /\ pc = "start"
  /\ ~IsSome(file)
  /\ ~IsSome(up)
  /\ pc' = "loaded"
  /\ UNCHANGED <<inputs, up, process, session_state, pressed, df,
                 weather_out, heat_out, freq_tbl>>

\* Line 20: st.stop().
Stop ==
  /\ pc = "start"
  /\ ~IsSome(file)
  /\ ~IsSome(up)
  /\ pc' = "stopped"
  /\ UNCHANGED <<inputs, up, process, session_state, pressed, df,
                 weather_out, heat_out, freq_tbl>>

(***************************************************************************)
(* Lines 28-48 and 77-78.                                                  *)
(***************************************************************************)
Preprocess ==
  /\ pc = "loaded"
  /\ ~to_datetime_raises(df)
  /\ df' = Preprocessed(df)
  /\ pc' = "normalized"
  /\ UNCHANGED <<inputs, up, process, session_state, pressed,
                 weather_out, heat_out, freq_tbl>>

\* Line 28 raises ValueError: the run ends there.
PreprocessRaises ==
  /\ pc = "loaded"
  /\ to_datetime_raises(df)
  /\ pc' = "error"
  /\ UNCHANGED <<inputs, up, process, session_state, pressed, df,
                 weather_out, heat_out, freq_tbl>>

MapFilter ==
  /\ pc = "normalized"
  /\ df' = MapFiltered(df)
  /\ pc' = "mapped"
  /\ UNCHANGED <<inputs, up, process, session_state, pressed,
                 weather_out, heat_out, freq_tbl>>

(***************************************************************************)
(* Lines 183-283: the weather section.                                     *)
(***************************************************************************)
\* The section with the press of its button ignored.
WeatherSectionNoReset ==
  /\ pc = "mapped"
  /\ \E top \in {TopK(df, "Weather", TopWeatherK, tie)} :
       \E sel \in {WidgetValue(session_state, "weather_sel", top)} :
         \E frame \in {WeatherFrame(df, sel)} :
           /\ top_weather' = top
           /\ weather_sel' = sel
           /\ session_state' = [session_state EXCEPT !.weather_sel = Some(sel)]
           /\ df_weather' = frame
           /\ scatter_data' = ScatterData(frame)
           /\ bar_data' = BarData(frame)
  /\ pc' = "weather"
  /\ UNCHANGED <<inputs, up, process, pressed, df, heat_out, freq_tbl>>

\* Lines 186-262.
WeatherSection ==
  /\ pc = "mapped"
  /\ \E top \in {TopK(df, "Weather", TopWeatherK, tie)} :
       LET ss == IF pressed = "select_all_weather_btn_1"
                 THEN [session_state EXCEPT !.weather_sel = Some(top)]
                 ELSE session_state
       IN \E sel \in {WidgetValue(ss, "weather_sel", top)} :
            \E frame \in {WeatherFrame(df, sel)} :
              /\ top_weather' = top
              /\ weather_sel' = sel
              /\ session_state' = [ss EXCEPT !.weather_sel = Some(sel)]
              /\ df_weather' = frame
              /\ scatter_data' = ScatterData(frame)
              /\ bar_data' = BarData(frame)
  /\ pc' = "weather"
  /\ UNCHANGED <<inputs, up, process, pressed, df, heat_out, freq_tbl>>

(***************************************************************************)
(* Lines 316-403: the heat-map section.                                    *)
(***************************************************************************)
HeatSection ==
  /\ pc = "weather"
  /\ \E top2 \in {TopK(df, "Weather", TopWeatherK, tie)},
        topi \in {TopK(df, "Illum", TopIllumK, tie)} :
       LET ss1 == IF ~IsSome(session_state.weather_sel_heat)
                  THEN [session_state EXCEPT !.weather_sel_heat = Some(top2)]
                  ELSE session_state
           ss2 == IF pressed = "select_all_weather_btn"
                  THEN [ss1 EXCEPT !.weather_sel_heat = Some(top2)]
                  ELSE ss1
           ss3 == IF pressed = "select_all_lighting"
                  THEN [ss2 EXCEPT !.illum_multiselect = Some(topi)]
                  ELSE ss2
       IN \E w_sel \in {WidgetValue(ss2, "weather_sel_heat", Get(ss2.weather_sel_heat))},
             i_sel \in {WidgetValue(ss3, "illum_multiselect",
                                    IF IsSome(ss3.illum_multiselect)
                                    THEN Get(ss3.illum_multiselect) ELSE topi)},
             metric \in {WidgetValue(ss3, "metric_choice_select", Metrics[1])} :
            \E df_weather_heat \in {Isin(df, "Weather", w_sel)} :
              /\ top_weather2' = top2
              /\ weather_sel_heat' = w_sel
              /\ top_illum' = topi
              /\ illum_sel' = i_sel
              /\ metric_choice' = metric
              /\ session_state' = [ss3 EXCEPT !.weather_sel_heat = Some(w_sel),
                                              !.illum_multiselect = Some(i_sel),
                                              !.metric_choice_select = Some(metric)]
              /\ grp' = build_heat(df_weather_heat, metric, w_sel, i_sel)
  /\ pc' = "heat"
  /\ UNCHANGED <<inputs, up, process, pressed, df, weather_out, freq_tbl>>

(***************************************************************************)
(* Lines 429-456: the time section.  prep_tables is cached; its argument   *)
(* _df is not part of the cache key (the leading underscore), so every     *)
(* call after the first returns the first call's tables.                   *)
(***************************************************************************)
TimeSection ==
  /\ pc = "heat"
  /\ LET tables == IF IsSome(prep_cache) THEN Get(prep_cache) ELSE prep_tables(df)
     IN /\ prep_cache' = Some(tables)
        /\ freq_tbl' = tables.freq_tbl
  /\ pc' = "done"
  /\ UNCHANGED <<inputs, up, np_random, cache, loads, session_state, pressed, df,
                 weather_out, heat_out>>

(***************************************************************************)
(* The browser session: each interaction with a widget reruns the script   *)
(* from the top with the widget's new value in st.session_state.           *)
(***************************************************************************)
NewRun ==
  /\ pc' = "start"
  /\ df' = <<>>
  /\ top_weather' = <<>> /\ weather_sel' = <<>> /\ df_weather' = <<>>
  /\ scatter_data' = {} /\ bar_data' = {}
  /\ top_weather2' = <<>> /\ weather_sel_heat' = <<>>
  /\ top_illum' = <<>> /\ illum_sel' = <<>>
  /\ metric_choice' = "" /\ grp' = <<>>
  /\ freq_tbl' = {}

\* The selections one click away: one option removed or one option added
\* at the end.
OneClick(sel, options) ==
  {SelectSeq(sel, LAMBDA x : x # v) : v \in Range(sel)}
    \cup {Append(sel, v) : v \in Range(options) \ Range(sel)}

\* The two weather multiselects on one key.
ChangeWeatherShared ==
  /\ pc = "done"
  /\ \E sel \in OneClick(weather_sel, top_weather) :
       session_state' = [session_state EXCEPT !.weather_sel = Some(sel),
                                              !.weather_sel_heat = Some(sel)]
  /\ pressed' = "none"
  /\ NewRun
  /\ UNCHANGED <<inputs, up, process>>

\* The user changes the weather multiselect of the scatter plot.
ChangeWeather ==
  /\ pc = "done"
  /\ \E sel \in OneClick(weather_sel, top_weather) :
       session_state' = [session_state EXCEPT !.weather_sel = Some(sel)]
  /\ pressed' = "none"
  /\ NewRun
  /\ UNCHANGED <<inputs, up, process>>

ChangeWeatherHeat ==
  /\ pc = "done"
  /\ \E sel \in OneClick(weather_sel_heat, top_weather2) :
       session_state' = [session_state EXCEPT !.weather_sel_heat = Some(sel)]
  /\ pressed' = "none"
  /\ NewRun
  /\ UNCHANGED <<inputs, up, process>>

ChangeIllum ==
  /\ pc = "done"
  /\ \E sel \in OneClick(illum_sel, top_illum) :
       session_state' = [session_state EXCEPT !.illum_multiselect = Some(sel)]
  /\ pressed' = "none"
  /\ NewRun
  /\ UNCHANGED <<inputs, up, process>>

ChangeMetric ==
  /\ pc = "done"
  /\ \E m \in Range(Metrics) \ {metric_choice} :
       session_state' = [session_state EXCEPT !.metric_choice_select = Some(m)]
  /\ pressed' = "none"
  /\ NewRun
  /\ UNCHANGED <<inputs, up, process>>

PressButton ==
  /\ pc = "done"
  /\ pressed' \in {"select_all_weather_btn_1", "select_all_weather_btn", "select_all_lighting"}
  /\ NewRun
  /\ UNCHANGED <<inputs, up, process, session_state>>

\* The states numpy seeds its global generator with at process start.
GlobalStates == {0, 1}

\* The server process ends and a new one starts: caches and sessions are
\* gone, numpy's global generator is seeded afresh.
Restart ==
  /\ pc \in {"loaded", "done", "stopped", "error"}
  /\ np_random' \in GlobalStates
  /\ cache' = <<>>
  /\ prep_cache' = None
  /\ session_state' = NoState
  /\ pressed' = "none"
  /\ up' = None
  /\ NewRun
  /\ UNCHANGED <<inputs, loads>>

(***************************************************************************)
(* Input files.                                                            *)
(***************************************************************************)
Row(w, i, t, inj, fat, lat) ==
  [Weather |-> w, Illum |-> i, DateTime |-> t, Injuries |-> inj, Fatalities |-> fat,
   Lat |-> lat, Long |-> Num(-867)]

Mon8AM == Stamp(1, 6, 2020, 8, 15, 0, "AM")
Sat12AM == Stamp(1, 11, 2020, 12, 5, 0, "AM")
Fri11PM == Stamp(1, 10, 2020, 11, 30, 0, "PM")
\* A 24-hour time where %I wants 1..12.
BadStamp == Stamp(1, 6, 2020, 13, 0, 0, "PM")

\* Every table of at most n rows drawn from S.
Tables(S, n) == UNION {[1..k -> S] : k \in 0..n}

Builds == {"first", "last"}

DefaultArgs == [sample_size |-> DefaultSampleSize, seed |-> DefaultSeed]

MaxRowsUI == 2

RowsUI ==
  {Row("CLEAR", "DAYLIGHT", Mon8AM, Num(1), Num(0), Num(361)),
   Row("RAIN", "DARK - LIGHTED", Fri11PM, Num(0), Num(1), Num(361)),
   Row(NaN, "DAYLIGHT", Sat12AM, Num(0), Num(0), Num(361)),
   Row("CLEAR", "DAYLIGHT", BadStamp, Num(0), Num(0), Num(361))}

\* The user uploads a CSV after the run stopped for want of one.
Upload ==
  /\ pc = "stopped"
  /\ up' \in {Some(t) : t \in Tables(RowsUI, 1)}
  /\ pressed' = "none"
  /\ NewRun
  /\ UNCHANGED <<inputs, process, session_state>>

(***************************************************************************)
(* The dashboard: a server process, one browser session, any number of     *)
(* reruns.                                                                 *)
(***************************************************************************)
Init ==
  /\ file \in {None} \cup {Some(t) : t \in Tables(RowsUI, MaxRowsUI)}
  /\ up = None
  /\ load_args = DefaultArgs
  /\ tie \in Builds
  /\ np_random = 0
  /\ FreshProcess
  /\ pc = "start"
  /\ FreshRun

Run ==
  \/ LoadFile
  \/ LoadUpload
  \/ Stop
  \/ Preprocess
  \/ PreprocessRaises
  \/ MapFilter
  \/ WeatherSection
  \/ HeatSection
  \/ TimeSection

Next ==
  \/ Run
  \/ Upload
  \/ ChangeWeather
  \/ ChangeWeatherHeat
  \/ ChangeIllum
  \/ ChangeMetric
  \/ PressButton

Spec == Init /\ [][Next]_vars

(***************************************************************************)
(* The table df the sections below line 78 see for a given file.           *)
(***************************************************************************)
DfOf(rows) ==
  MapFiltered(Preprocessed(
    load_sample_csv(rows, DefaultSampleSize, DefaultSeed, 0)))

\* Every list a multiselect over the options can hold: distinct options in
\* the order the user picked them.
Selections(options) ==
  {s \in UNION {[1..k -> Range(options)] : k \in 0..Len(options)} :
     \A a, b \in 1..Len(s) : a # b => s[a] # s[b]}

(***************************************************************************)
(* build_heat on its own: the script at line 316, for every table of a     *)
(* few rows and every state the three widgets of the section can be in.    *)
(***************************************************************************)
MaxRowsHeat == 2

RowsHeat ==
  {Row(w, i, Mon8AM, c[1], c[2], Num(361)) :
     w \in {"CLEAR", "RAIN"}, i \in {"DAYLIGHT", "DARK - LIGHTED"},
     c \in {<<Num(0), Num(0)>>, <<Num(2), Num(1)>>, <<NoNum, Num(0)>>}}

InitHeat ==
  /\ file \in {Some(t) : t \in Tables(RowsHeat, MaxRowsHeat)}
  /\ up = None
  /\ load_args = DefaultArgs
  /\ tie = "first"
  /\ np_random = 0
  /\ cache = <<>> /\ loads = {} /\ prep_cache = None
  /\ pressed = "none"
  /\ pc = "weather"
  /\ df = DfOf(Get(file))
  /\ \E w \in Selections(TopK(df, "Weather", TopWeatherK, tie)),
        i \in Selections(TopK(df, "Illum", TopIllumK, tie)),
        m \in Range(Metrics) :
       session_state = [weather_sel |-> None, weather_sel_heat |-> Some(w),
                        illum_multiselect |-> Some(i), metric_choice_select |-> Some(m)]
  /\ top_weather = <<>> /\ weather_sel = <<>> /\ df_weather = <<>>
  /\ scatter_data = {} /\ bar_data = {}
  /\ top_weather2 = <<>> /\ weather_sel_heat = <<>>
  /\ top_illum = <<>> /\ illum_sel = <<>>
  /\ metric_choice = "" /\ grp = <<>>
  /\ freq_tbl = {}

SpecHeat == InitHeat /\ [][HeatSection]_vars

HeatBuilt == pc \in {"heat", "done"}

\* The rows of df with weather w and lighting i.
PairRows(w, i) == {k \in 1..Len(df) : df[k].Weather = w /\ df[k].Illum = i}
\* The rows of the grid for the pair (w, i).
GridRows(w, i) == {n \in 1..Len(grp) : grp[n].Weather = w /\ grp[n].Illum = i}

\* C1: for non-empty, duplicate-free w_list and i_list the grid built in
\* build_heat has |w_list| x |i_list| rows and holds every pair (w, i) of
\* w_list x i_list exactly once, however few of the pairs occur in df.
C1_GridIsFullProduct ==
  (HeatBuilt /\ weather_sel_heat # <<>> /\ illum_sel # <<>>) =>
    /\ Len(grp) = Len(weather_sel_heat) * Len(illum_sel)
    /\ \A w \in Range(weather_sel_heat), i \in Range(illum_sel) :
         Cardinality(GridRows(w, i)) = 1

\* A grid of two by two selected values of which at most two occur in df.
C1_Witness ==
  /\ pc = "heat"
  /\ Len(weather_sel_heat) = 2 /\ Len(illum_sel) = 2
  /\ Len(grp) = 4
  /\ \E w \in Range(weather_sel_heat), i \in Range(illum_sel) : PairRows(w, i) = {}

\* C2: every pair of w_list x i_list without a row in the data has
\* acc_cnt = 0, total = 0 and avg_val = 0, and no cell's avg_val is the
\* outcome of a division by zero.
C2_EmptyCellsAreZero ==
  HeatBuilt =>
    \A n \in 1..Len(grp) :
      /\ grp[n].avg_val.den # 0
      /\ PairRows(grp[n].Weather, grp[n].Illum) = {} =>
           /\ grp[n].acc_cnt = 0
           /\ grp[n].total = 0
           /\ grp[n].avg_val = Float(0)

\* A grid with a synthesized cell beside an observed one.
C2_Witness ==
  /\ pc = "heat"
  /\ \E n \in 1..Len(grp) : PairRows(grp[n].Weather, grp[n].Illum) = {}
  /\ \E n \in 1..Len(grp) : grp[n].acc_cnt > 0

RECURSIVE SumCells(_, _, _)
\* The sum of column c over the rows rows of tbl, missing cells skipped.
SumCells(tbl, rows, c) ==
  IF rows = {} THEN 0
  ELSE LET k == CHOOSE k \in rows : TRUE
       IN (IF IsNum(tbl[k][c]) THEN Val(tbl[k][c]) ELSE 0) + SumCells(tbl, rows \ {k}, c)

RECURSIVE SumAccCnt(_)
SumAccCnt(rows) ==
  IF rows = {} THEN 0
  ELSE LET n == CHOOSE n \in rows : TRUE IN grp[n].acc_cnt + SumAccCnt(rows \ {n})

\* C3: for every pair (w, i) of w_list x i_list with a row in df, acc_cnt is
\* the number of rows of df with that weather and lighting, total the sum
\* over them of 'Number of Injuries' under the metric "Injuries" and of
\* 'Number of Fatalities' otherwise, avg_val = total / acc_cnt; rows with a
\* weather outside w_list or a lighting outside i_list are in no cell.
C3_CellsAggregateTheirRows ==
  HeatBuilt =>
    /\ \A n \in 1..Len(grp) :
         LET rows == PairRows(grp[n].Weather, grp[n].Illum)
             col == IF metric_choice = "Injuries" THEN "Injuries" ELSE "Fatalities"
         IN rows # {} =>
              /\ grp[n].acc_cnt = Cardinality(rows)
              /\ grp[n].total = SumCells(df, rows, col)
              /\ grp[n].avg_val.den # 0
              /\ grp[n].avg_val.num * grp[n].acc_cnt = grp[n].total * grp[n].avg_val.den
    /\ SumAccCnt(1..Len(grp)) =
         Cardinality({k \in 1..Len(df) : /\ df[k].Weather \in Range(weather_sel_heat)
                                          /\ df[k].Illum \in Range(illum_sel)})

\* Two rows in one cell under the metric "Fatalities", their fatalities
\* differing from their injuries, and a row of df outside the selection.
C3_Witness ==
  /\ pc = "heat"
  /\ metric_choice = "Fatalities"
  /\ \E n \in 1..Len(grp) :
       /\ grp[n].acc_cnt = 2
       /\ grp[n].total = 2
       /\ grp[n].avg_val = Float(1)
  /\ Len(df) = 2

(***************************************************************************)
(* The groupby aggregations on their own: the script at line 183 and at    *)
(* line 429, for every table of a few rows, timestamps missing or not.     *)
(***************************************************************************)
MaxRowsAgg == 2

RowsAgg ==
  {Row(w, "DAYLIGHT", t, inj, Num(0), Num(361)) :
     w \in {"CLEAR", "RAIN"}, t \in {Mon8AM, Sat12AM, NaT}, inj \in {Num(0), Num(2)}}

InitAgg ==
  /\ file \in {Some(t) : t \in Tables(RowsAgg, MaxRowsAgg)}
  /\ up = None
  /\ load_args = DefaultArgs
  /\ tie = "first"
  /\ np_random = 0
  /\ cache = <<>> /\ loads = {} /\ prep_cache = None
  /\ pressed = "none"
  /\ pc \in {"mapped", "heat"}
  /\ df = DfOf(Get(file))
  /\ \E w \in Selections(TopK(df, "Weather", TopWeatherK, tie)) :
       session_state = [NoState EXCEPT !.weather_sel = Some(w)]
  /\ top_weather = <<>> /\ weather_sel = <<>> /\ df_weather = <<>>
  /\ scatter_data = {} /\ bar_data = {}
  /\ top_weather2 = <<>> /\ weather_sel_heat = <<>>
  /\ top_illum = <<>> /\ illum_sel = <<>>
  /\ metric_choice = "" /\ grp = <<>>
  /\ freq_tbl = {}

SpecAgg == InitAgg /\ [][WeatherSection \/ TimeSection]_vars

RECURSIVE SumAccidentCount(_)
\* The sum of accident_count over the rows of an aggregation.
SumAccidentCount(rows) ==
  IF rows = {} THEN 0
  ELSE LET r == CHOOSE r \in rows : TRUE
       IN r.accident_count + SumAccidentCount(rows \ {r})

\* C4: grouping loses and duplicates no row: the accident_count of
\* scatter_data and of bar_data sum to the number of rows of df_weather,
\* those of freq_tbl to the number of rows of df.
C4_GroupingConservesRows ==
  /\ pc = "weather" =>
       /\ SumAccidentCount(scatter_data) = Len(df_weather)
       /\ SumAccidentCount(bar_data) = Len(df_weather)
  /\ pc = "done" => SumAccidentCount(freq_tbl) = Len(df)

\* C5: every row of scatter_data has accident_count >= 1 and
\* 0 <= injury_count <= accident_count, so '% Injury' is in [0, 100] and
\* was not divided by zero.
C5_InjuryShareInBounds ==
  pc = "weather" =>
    \A r \in scatter_data :
      /\ r.accident_count >= 1
      /\ 0 <= r.injury_count /\ r.injury_count <= r.accident_count
      /\ r.pct_injury.den > 0
      /\ 0 <= r.pct_injury.num /\ r.pct_injury.num <= 100 * r.pct_injury.den

\* A group of two accidents, one of them with (two) injuries: 50 %.
C5_Witness ==
  /\ pc = "weather"
  /\ \E r \in scatter_data :
       /\ r.accident_count = 2 /\ r.injury_count = 1
       /\ r.pct_injury = Float(50)
       /\ \E k \in 1..Len(df_weather) : df_weather[k].Injuries = Num(2)

(***************************************************************************)
(* load_sample_csv on its own: every file of a few rows, every sample size *)
(* up to one past the file's length, a few seeds, over process restarts.   *)
(***************************************************************************)
MaxRowsLoad == 3

Seeds == {41, 42, 43}

InitLoad ==
  /\ file \in {Some(t) : t \in Tables(RowsUI, MaxRowsLoad)}
  /\ up = None
  /\ load_args \in [sample_size : 0..(MaxRowsLoad + 1), seed : Seeds]
  /\ tie = "first"
  /\ np_random \in GlobalStates
  /\ FreshProcess
  /\ pc = "start"
  /\ FreshRun

SpecLoad == InitLoad /\ [][LoadFile \/ Restart]_vars

\* C6: load_sample_csv returns exactly min(sample_size, total_rows) records
\* of the source, and two calls with the same source, sample_size and seed
\* return the same rows in the same order.
C6_SampleSizeAndDeterminism ==
  /\ \A a \in loads :
       LET source == read_csv(a.content) IN
       /\ Len(a.result) = (IF a.key[2] <= Len(a.content) THEN a.key[2] ELSE Len(a.content))
       /\ \A k \in 1..Len(a.result) : a.result[k] \in Range(source)
       /\ \A j, k \in 1..Len(a.result) : j # k => a.result[j].idx # a.result[k].idx
  /\ \A a, b \in loads :
       (a.key = b.key /\ a.content = b.content) => a.result = b.result

\* Two calls in two processes (neither answered by the cache, the global
\* generator in different states) drew the same two of three rows, in an
\* order that is not the file's.
C6_Witness ==
  \E a, b \in loads :
    /\ a.key = b.key /\ a.content = b.content
    /\ ~a.hit /\ ~b.hit
    /\ a.global # b.global
    /\ Len(a.content) = 3 /\ a.key[2] = 2
    /\ Len(a.result) = 2
    /\ a.result[1].idx > a.result[2].idx
    /\ a.result = b.result

(***************************************************************************)
(* The Category Selector on its own: the script at line 183, for tables    *)
(* with more distinct weather and lighting values than the lists hold.     *)
(***************************************************************************)
MaxRowsTopK == 10
MaxRepeats == 2

WeatherNames ==
  <<"CLEAR", "CLOUDY", "RAIN", "FOG", "SNOW", "SLEET, HAIL", "SMOG, SMOKE",
    "BLOWING SNOW", "SEVERE CROSSWIND", "BLOWING SAND, SOIL, DIRT",
    "FREEZING RAIN", "MIST", "DRIZZLE">>
IllumNames ==
  <<"DAYLIGHT", "DARK - LIGHTED", "DARK - NOT LIGHTED", "DUSK", "DAWN",
    "DARK - UNKNOWN LIGHTING", "TWILIGHT", "GLARE", "OVERCAST", "TUNNEL",
    "FLOODLIT", "MOONLIT", "STREETLIT">>

RECURSIVE PatternsUpTo(_)
\* The columns of n rows up to a renaming of their values (each new value
\* is the next unused one) in which at most MaxRepeats rows repeat an
\* earlier value, one of the first MaxRepeats; each with the number of its
\* values.
PatternsUpTo(n) ==
  IF n = 0 THEN {[col |-> <<>>, values |-> 0]}
  ELSE LET shorter == PatternsUpTo(n - 1)
       IN {[col |-> Append(p.col, p.values + 1), values |-> p.values + 1] : p \in shorter}
            \cup {[col |-> Append(q[1].col, q[2]), values |-> q[1].values] :
                    q \in {r \in shorter \X (1..MaxRowsTopK) :
                             /\ r[2] <= r[1].values /\ r[2] <= MaxRepeats
                             /\ n - r[1].values <= MaxRepeats}}
Patterns(n) == {p.col : p \in PatternsUpTo(n)}

\* The weather column follows the pattern, the lighting column the
\* pattern read backwards.
PatternTable(p) ==
  [k \in 1..Len(p) |->
     Row(WeatherNames[p[k]], IllumNames[p[Len(p) + 1 - k]], Mon8AM, Num(0), Num(0), Num(361))]

InitTopK ==
  /\ file \in {Some(PatternTable(p)) : p \in Patterns(MaxRowsTopK)}
              \cup {Some(t) : t \in Tables(RowsHeat, 2)}
  /\ up = None
  /\ load_args = DefaultArgs
  /\ tie \in Builds
  /\ np_random = 0
  /\ FreshProcess
  /\ pc = "mapped"
  /\ df = DfOf(Get(file))
  /\ top_weather = <<>> /\ weather_sel = <<>> /\ df_weather = <<>>
  /\ scatter_data = {} /\ bar_data = {}
  /\ top_weather2 = <<>> /\ weather_sel_heat = <<>>
  /\ top_illum = <<>> /\ illum_sel = <<>>
  /\ metric_choice = "" /\ grp = <<>>
  /\ freq_tbl = {}

SpecTopK == InitTopK /\ [][WeatherSection \/ HeatSection]_vars

\* The number of rows of df whose column c holds v, and the first of them.
Freq(c, v) == Cardinality({k \in 1..Len(df) : df[k][c] = v})
FirstRow(c, v) == CHOOSE k \in 1..Len(df) : df[k][c] = v /\ \A j \in 1..(k - 1) : df[j][c] # v
Distinct(c) == {df[k][c] : k \in 1..Len(df)}

\* list holds the min(K, distinct) most frequent values of column c of df
\* in descending frequency.
MostFrequent(list, c, K) ==
  /\ Len(list) = (IF K <= Cardinality(Distinct(c)) THEN K ELSE Cardinality(Distinct(c)))
  /\ Range(list) \subseteq Distinct(c)
  /\ \A a, b \in 1..Len(list) : a < b =>
       list[a] # list[b] /\ Freq(c, list[a]) >= Freq(c, list[b])
  /\ \A v \in Distinct(c) \ Range(list) :
       \A a \in 1..Len(list) : Freq(c, list[a]) >= Freq(c, v)

\* Values of equal frequency stand in the order of their first rows, in the
\* list and against the values left out.
TiesByFirstAppearance(list, c) ==
  /\ \A a, b \in 1..Len(list) :
       (a < b /\ Freq(c, list[a]) = Freq(c, list[b])) =>
          FirstRow(c, list[a]) < FirstRow(c, list[b])
  /\ \A v \in Distinct(c) \ Range(list) :
       \A a \in 1..Len(list) :
          Freq(c, list[a]) = Freq(c, v) => FirstRow(c, list[a]) < FirstRow(c, v)

C8_Step ==
  /\ (pc = "start" /\ ~IsSome(file) /\ ~IsSome(up)) =>
        /\ pc' = "stopped"
        /\ FreshRun'
        /\ UNCHANGED <<cache, loads, prep_cache, session_state>>
  /\ pc = "stopped" =>
        /\ FreshRun /\ loads = {} /\ cache = <<>> /\ prep_cache = None
        /\ pc' = "start" /\ IsSome(up') /\ FreshRun'
  /\ (pc = "start" /\ ~IsSome(file) /\ IsSome(up)) =>
        /\ pc' = "loaded"
        /\ df' = load_sample_csv(Get(up), load_args.sample_size, load_args.seed, np_random)
        /\ \E l \in loads' : l.key[1] = "upload" /\ l.content = Get(up) /\ l.result = df'

\* C8: when no file exists at DATA_PATH and nothing has been uploaded the
\* run halts at st.stop(): no table is produced and no step below line 20
\* runs in that run; when an upload is present the run proceeds with the
\* table loaded from it.
C8_MissingSourceStops == [][C8_Step]_vars

\* A run completed on an uploaded one-row table, which only a run stopped
\* for want of a source can have asked for.
C8_Witness ==
  /\ pc = "done"
  /\ ~IsSome(file)
  /\ IsSome(up)
  /\ Len(df) = 1
  /\ freq_tbl # {}
  /\ \E l \in loads : l.key[1] = "upload" /\ ~l.hit

(***************************************************************************)
(* Lines 39-46 on files that hold the excluded values: one run of the      *)
(* script from its start.                                                  *)
(***************************************************************************)
MaxRowsNorm == 2

RowsNorm ==
  {Row(w, "DAYLIGHT", Mon8AM, Num(1), Num(0), Num(361))
     : w \in {"CLEAR", NaN, "OTHER (NARRATIVE)", "OTHER", "UNKNOWN"}}
    \cup {Row("RAIN", i, Fri11PM, Num(0), Num(1), Num(361))
            : i \in {"DARK - LIGHTED", NaN, "OTHER (NARRATIVE)", "OTHER", "UNKNOWN"}}

InitNorm ==
  /\ file \in {Some(t) : t \in Tables(RowsNorm, MaxRowsNorm)}
  /\ up = None
  /\ load_args = DefaultArgs
  /\ tie \in Builds
  /\ np_random = 0
  /\ FreshProcess
  /\ pc = "start"
  /\ FreshRun

SpecNorm ==
  InitNorm /\ [][LoadFile \/ Preprocess \/ MapFilter \/ WeatherSection
                   \/ HeatSection \/ TimeSection]_vars

\* The row of the file a row of a table was read from.
SourceRow(r) == Get(file)[r.idx + 1]

\* The values of the source that normalization removes.
ExcludedWeather == {NaN, "OTHER (NARRATIVE)", "OTHER", "UNKNOWN"}
ExcludedIllum == {NaN, "OTHER", "UNKNOWN"}

FromKeptSource(tbl) ==
  \A k \in 1..Len(tbl) :
    /\ SourceRow(tbl[k]).Weather \notin ExcludedWeather
    /\ SourceRow(tbl[k]).Illum \notin ExcludedIllum
    /\ tbl[k].Weather = SourceRow(tbl[k]).Weather
    /\ tbl[k].Illum = SourceRow(tbl[k]).Illum

\* C9: after normalization no row of the table any later stage uses had a
\* weather value missing, "OTHER (NARRATIVE)", "OTHER" or "UNKNOWN" in the
\* source, nor a lighting value missing, "OTHER" or "UNKNOWN"; the top-K
\* lists, the selections and every aggregated cell hold neither "OTHER"
\* nor "UNKNOWN".
C9_ExcludedValuesGone ==
  pc \in {"normalized", "mapped", "weather", "heat", "done"} =>
    /\ FromKeptSource(df)
    /\ FromKeptSource(df_weather)
    /\ \A list \in {top_weather, top_weather2, top_illum,
                    weather_sel, weather_sel_heat, illum_sel} :
         Range(list) \cap (exclude \cup {NaN}) = {}
    /\ \A c \in scatter_data \cup bar_data : c.Weather \notin exclude \cup {NaN}
    /\ \A n \in 1..Len(grp) :
         /\ grp[n].Weather \notin exclude \cup {NaN}
         /\ grp[n].Illum \notin exclude \cup {NaN}

\* A finished run on a file of two rows of which normalization removed one,
\* the other counted in a cell of each aggregate.
C9_Witness ==
  /\ pc = "done"
  /\ Len(Get(file)) = 2
  /\ \E k \in 1..2 : \/ Get(file)[k].Weather \in ExcludedWeather
                     \/ Get(file)[k].Illum \in ExcludedIllum
  /\ Len(df) = 1
  /\ scatter_data # {}
  /\ \E n \in 1..Len(grp) : grp[n].acc_cnt = 1

(***************************************************************************)
(* Empty selections, which the reruns of the dashboard (Spec) reach.       *)
(***************************************************************************)
\* C10: with weather_sel empty scatter_data and bar_data have no rows, with
\* weather_sel_heat or illum_sel empty the grid of build_heat has none, and
\* the run goes through them: the only error of a run is the one line 28
\* raises before any of them.
C10_EmptySelectionEmptyAggregates ==
  /\ (pc \in {"weather", "heat", "done"} /\ weather_sel = <<>>) =>
        df_weather = <<>> /\ scatter_data = {} /\ bar_data = {}
  /\ (pc \in {"heat", "done"} /\ (weather_sel_heat = <<>> \/ illum_sel = <<>>)) =>
        grp = <<>>
  /\ pc = "error" => to_datetime_raises(df) /\ scatter_data = {} /\ bar_data = {} /\ grp = <<>>

\* A finished run over a table with rows in which the user has emptied the
\* weather filter of the scatter plot and the lighting filter of the heat
\* map, the heat map's weather filter still holding values.
C10_Witness ==
  /\ pc = "done"
  /\ df # <<>>
  /\ top_weather # <<>> /\ weather_sel = <<>>
  /\ weather_sel_heat # <<>>
  /\ top_illum # <<>> /\ illum_sel = <<>>
  /\ freq_tbl # {}

(***************************************************************************)
(* Files with rows that lack a coordinate or a count: one run of the       *)
(* script from its start.                                                  *)
(***************************************************************************)
MaxRowsReq == 2

\* A complete row, the same row with one of the four fields missing, and a
\* complete row of another weather.
RowsReq ==
  LET full == Row("CLEAR", "DAYLIGHT", Mon8AM, Num(1), Num(1), Num(361))
  IN {full,
      [full EXCEPT !.Lat = NoNum],
      [full EXCEPT !.Long = NoNum],
      [full EXCEPT !.Injuries = NoNum],
      [full EXCEPT !.Fatalities = NoNum],
      Row("RAIN", "DARK - LIGHTED", Fri11PM, Num(0), Num(0), Num(361))}

InitReq ==
  /\ file \in {Some(t) : t \in Tables(RowsReq, MaxRowsReq)}
  /\ up = None
  /\ load_args = DefaultArgs
  /\ tie \in Builds
  /\ np_random = 0
  /\ FreshProcess
  /\ pc = "start"
  /\ FreshRun

SpecReq ==
  InitReq /\ [][LoadFile \/ Preprocess \/ MapFilter \/ WeatherSection
                  \/ HeatSection \/ TimeSection]_vars

\* A row with its latitude, longitude, 'Number of Injuries' and 'Number of
\* Fatalities' all present, and the rows of a table that are.
HasRequired(r) ==
  IsNum(r.Lat) /\ IsNum(r.Long) /\ IsNum(r.Injuries) /\ IsNum(r.Fatalities)
WithRequired(tbl) == SelectSeq(tbl, HasRequired)

\* C11: rows of the loaded table that lack a latitude, a longitude, a
\* 'Number of Injuries' or a 'Number of Fatalities' are removed by
\* normalization: the table the sections use holds none, and scatter_data,
\* bar_data, the grid of build_heat and freq_tbl are what the rows with all
\* four fields alone give.
C11_RequiredFieldsGate ==
  /\ pc \in {"mapped", "weather", "heat", "done"} => WithRequired(df) = df
  /\ pc \in {"weather", "heat", "done"} =>
       /\ scatter_data = ScatterData(WithRequired(df_weather))
       /\ bar_data = BarData(WithRequired(df_weather))
  /\ pc \in {"heat", "done"} =>
       grp = build_heat(WithRequired(Isin(df, "Weather", weather_sel_heat)),
                        metric_choice, weather_sel_heat, illum_sel)
  /\ pc = "done" => freq_tbl = FreqTbl(Labeled(WithRequired(df)))

(***************************************************************************)
(* The filters over the reruns of the dashboard (Spec).                    *)
(***************************************************************************)
\* A step of a section in a run where its filter has not been touched yet
\* (its key is not in st.session_state) or its "Select all" button was
\* pressed: the selection is the whole top-K list, and the aggregation of
\* the step is the one over that list.
C12_Step ==
  /\ (/\ pc = "mapped" /\ pc' = "weather"
      /\ \/ ~IsSome(session_state.weather_sel)
         \/ pressed = "select_all_weather_btn_1") =>
        /\ top_weather' = TopK(df, "Weather", TopWeatherK, tie)
        /\ weather_sel' = top_weather'
        /\ session_state'.weather_sel = Some(top_weather')
        /\ df_weather' = WeatherFrame(df, top_weather')
        /\ scatter_data' = ScatterData(df_weather')
        /\ bar_data' = BarData(df_weather')
  /\ (/\ pc = "weather" /\ pc' = "heat"
      /\ \/ ~IsSome(session_state.weather_sel_heat)
         \/ pressed = "select_all_weather_btn") =>
        /\ top_weather2' = TopK(df, "Weather", TopWeatherK, tie)
        /\ weather_sel_heat' = top_weather2'
        /\ session_state'.weather_sel_heat = Some(top_weather2')
  /\ (/\ pc = "weather" /\ pc' = "heat"
      /\ \/ ~IsSome(session_state.illum_multiselect)
         \/ pressed = "select_all_lighting") =>
        /\ top_illum' = TopK(df, "Illum", TopIllumK, tie)
        /\ illum_sel' = top_illum'
        /\ session_state'.illum_multiselect = Some(top_illum')
  /\ (pc = "weather" /\ pc' = "heat") =>
        grp' = build_heat(Isin(df, "Weather", weather_sel_heat'), metric_choice',
                          weather_sel_heat', illum_sel')

\* C12: each filter's selection is the whole top-K list on the first run,
\* and in every later rerun in which the filter's "Select all" button was
\* pressed the selection the aggregation of that rerun uses is the whole
\* top-K list again, whatever was selected before: for weather_sel,
\* weather_sel_heat and illum_multiselect.
C12_SelectAllRestoresTopK == [][C12_Step]_vars

\* The end of a rerun started by the lighting button, with both lighting
\* values selected again while the weather filters stay emptied.
C12_Witness ==
  /\ pc = "done"
  /\ pressed = "select_all_lighting"
  /\ Len(top_illum) = 2 /\ illum_sel = top_illum
  /\ Len(grp) = 0
  /\ top_weather # <<>> /\ weather_sel = <<>>
  /\ weather_sel_heat = <<>>

Keys == {"weather_sel", "weather_sel_heat", "illum_multiselect", "metric_choice_select"}

\* The button that resets a key and the place of the script where it does.
ResetBy(key) ==
  CASE key = "weather_sel" -> [button |-> "select_all_weather_btn_1", at |-> "mapped"]
    [] key = "weather_sel_heat" -> [button |-> "select_all_weather_btn", at |-> "weather"]
    [] key = "illum_multiselect" -> [button |-> "select_all_lighting", at |-> "weather"]
    [] OTHER -> [button |-> "no button", at |-> "nowhere"]

\* A step that changes the value st.session_state holds under a key is the
\* user changing that widget and no other, or the script at that key's own
\* button in a rerun the button started; and each section computes with the
\* value under its own key.
C13_Step ==
  /\ \A key \in Keys :
       (IsSome(session_state[key]) /\ session_state'[key] # session_state[key]) =>
          \/ /\ pc = "done" /\ pc' = "start" /\ pressed' = "none"
             /\ \A other \in Keys \ {key} : session_state'[other] = session_state[other]
          \/ /\ pc = ResetBy(key).at /\ pressed = ResetBy(key).button
             /\ \A other \in Keys \ {key} :
                  IsSome(session_state[other]) => session_state'[other] = session_state[other]
  /\ pc' = "weather" => weather_sel' = Get(session_state'.weather_sel)
  /\ pc' = "heat" =>
       /\ weather_sel' = Get(session_state'.weather_sel)
       /\ weather_sel_heat' = Get(session_state'.weather_sel_heat)
       /\ illum_sel' = Get(session_state'.illum_multiselect)
       /\ metric_choice' = Get(session_state'.metric_choice_select)

\* C13: the scatter/bar weather filter and the heat-map weather filter are
\* independent over any sequence of reruns: changing weather_sel or
\* pressing its "Select all" button leaves weather_sel_heat,
\* illum_multiselect and metric_choice_select as they were, and changing
\* weather_sel_heat or pressing its button leaves weather_sel as it was.
C13_FiltersIndependent == [][C13_Step]_vars

\* The end of a rerun started by the scatter plot's button: its filter is
\* whole again, the heat map's filters and metric are as the user left
\* them.
C13_Witness ==
  /\ pc = "done"
  /\ pressed = "select_all_weather_btn_1"
  /\ Len(top_weather) = 2 /\ weather_sel = top_weather
  /\ weather_sel_heat = <<>>
  /\ Len(illum_sel) = 1
  /\ metric_choice = "Fatalities"

====
